---- MODULE Spec2Model ----
\* Oblivious ride matching (application-gateway-go): the Rider/Drivers model,
\* the FindClosestDriver evaluation and selection, ObliviousRideMatching and
\* the createServices caller.
EXTENDS Integers, Sequences, FiniteSets, TLC

VARIABLES
    pc,                 \* position of the round inside createServices / ObliviousRideMatching
    nbDrivers,          \* argument nbDrivers of ObliviousRideMatching
    paramsT,            \* rider.Params.T(), 0 before NewRider
    maxvalue,           \* local maxvalue of GetCipheredPosition / GetNearDrivers
    riderPosX,          \* rider.riderPosX
    riderPosY,          \* rider.riderPosY
    riderCiphertext,    \* slot vector held by the requester ciphertext
    DriversData,        \* drivers.DriversData
    DriverCipherTexts,  \* slot vectors held by drivers.DriverCipherTexts
    result,             \* decoded slot vector of FindClosestDriver
    noisy,              \* candidates whose decoded slots differ from the exact slot arithmetic
    i,                  \* loop index of the selection loop
    minIndex,
    minPosX,
    minPosY,
    minDist,
    errors,
    ClosestDriverID,    \* drivers.ClosestDriverID
    isClosestDriverFound,
    submitted,          \* CreateService submissions made by createServices
    run,                \* number of FindClosestDriver calls started on these objects
    firstRun,           \* outcome of the first FindClosestDriver call
    args,               \* arguments of the last direct distance call
    dist,               \* value returned by the last direct distance call
    underflow,          \* whether a subtraction of that call had minuend < subtrahend
    ledger,             \* world state of the channel: key -> bytes stored under it
    txResult,           \* the last chaincode invocation and what it returned
    steps               \* steps of ObliviousRideMatching carried out so far, in order

vars == <<pc, nbDrivers, paramsT, maxvalue, riderPosX, riderPosY, riderCiphertext,
          DriversData, DriverCipherTexts, result, noisy, i, minIndex, minPosX, minPosY,
          minDist, errors, ClosestDriverID, isClosestDriverFound, submitted, run,
          firstRun, args, dist, underflow, ledger, txResult, steps>>

----------------------------------------------------------------------------
\* Bounds of the model.

\* largest nbDrivers passed to ObliviousRideMatching
MaxDrivers == 4

\* largest plaintext modulus (besides the configured one) of the arithmetic specification
MaxModulus == 26

\* slots of a batched vector kept by the model: the pairs (2i, 2i+1), i < MaxDrivers
SlotsKept == 2 * MaxDrivers

Slots == 0 .. (SlotsKept - 1)

\* positions the uniform sampling of GetNearDrivers is drawn from
SamplePositions ==
    { <<10, 10>>, <<12, 10>>, <<10, 7>>, <<100, 100>> }

\* positions the uniform sampling of GetCipheredPosition is drawn from
RiderSamplePositions == { <<10, 10>>, <<8118, 500>> }

\* coordinates the direct distance calls are drawn from, besides the smallest ones
SampleCoordinates == { 10, 8117, 8118 }

----------------------------------------------------------------------------
\* uint64 arithmetic, as little-endian sequences of 8 limbs of 8 bits.

Limbs == 8

Base == 256

RECURSIVE U64From(_, _)
U64From(n, k) ==
    IF k = 0 THEN << >> ELSE << n % Base >> \o U64From(n \div Base, k - 1)

\* uint64(n) for a natural n
U64(n) == U64From(n, Limbs)

RECURSIVE U64AddFrom(_, _, _, _)
U64AddFrom(a, b, k, carry) ==
    IF k > Limbs THEN << >>
    ELSE LET s == a[k] + b[k] + carry
         IN  << s % Base >> \o U64AddFrom(a, b, k + 1, s \div Base)

\* a + b modulo 2^64
U64Add(a, b) == U64AddFrom(a, b, 1, 0)

RECURSIVE U64SubFrom(_, _, _, _)
U64SubFrom(a, b, k, borrow) ==
    IF k > Limbs THEN << >>
    ELSE LET d == a[k] - b[k] - borrow
         IN  IF d < 0 THEN << d + Base >> \o U64SubFrom(a, b, k + 1, 1)
                      ELSE << d >> \o U64SubFrom(a, b, k + 1, 0)

\* a - b modulo 2^64
U64Sub(a, b) == U64SubFrom(a, b, 1, 0)

RECURSIVE U64LessFrom(_, _, _)
U64LessFrom(a, b, k) ==
    IF k = 0 THEN FALSE
    ELSE IF a[k] # b[k] THEN a[k] < b[k]
    ELSE U64LessFrom(a, b, k - 1)

\* a < b on uint64
U64Less(a, b) == U64LessFrom(a, b, Limbs)

RECURSIVE U64Column(_, _, _, _)
U64Column(a, b, k, j) ==
    IF j > k THEN 0 ELSE a[j] * b[k + 1 - j] + U64Column(a, b, k, j + 1)

RECURSIVE U64MulFrom(_, _, _, _)
U64MulFrom(a, b, k, carry) ==
    IF k > Limbs THEN << >>
    ELSE LET s == U64Column(a, b, k, 1) + carry
         IN  << s % Base >> \o U64MulFrom(a, b, k + 1, s \div Base)

\* a * b modulo 2^64
U64Mul(a, b) == U64MulFrom(a, b, 1, 0)

----------------------------------------------------------------------------
\* The plaintext modulus and the coordinate bound.

\* paramDef.T = 0x3ee0001
ParamT == 65929217

RECURSIVE SqrtSearch(_, _, _)
SqrtSearch(n, lo, hi) ==
    IF lo >= hi THEN lo
    ELSE LET mid == (lo + hi + 1) \div 2
         IN  IF mid * mid <= n THEN SqrtSearch(n, mid, hi)
                               ELSE SqrtSearch(n, lo, mid - 1)

MaxValue_Inclusive(t) == SqrtSearch(t, 0, 46340) + 1

MaxValue_NoSqrt(t) == t

\* uint64(math.Sqrt(float64(T))): the square root truncated to an integer
MaxValue(t) == SqrtSearch(t, 0, 46340)

\* the outcomes of ring.RandUniform(prng, maxvalue, mask), twice: a pair in [0, maxvalue)^2
Grid(samples, mv) == { p \in samples : p[1] < mv /\ p[2] < mv }

----------------------------------------------------------------------------
\* distance(a, b, c, d) on uint64 values.

distance_XOnly(a, b, c, d) ==
    LET lo == IF U64Less(c, a) THEN c ELSE a
        hi == IF U64Less(c, a) THEN a ELSE c
        x == U64Sub(lo, hi)
    IN  U64Mul(x, x)

distance_NoSquareY(a, b, c, d) ==
    LET a1 == IF U64Less(c, a) THEN c ELSE a
        c1 == IF U64Less(c, a) THEN a ELSE c
        b1 == IF U64Less(d, b) THEN d ELSE b
        d1 == IF U64Less(d, b) THEN b ELSE d
        x  == U64Sub(a1, c1)
        y  == U64Sub(b1, d1)
    IN  U64Add(U64Mul(x, x), y)

distance(a, b, c, d) ==
    LET a1 == IF U64Less(c, a) THEN c ELSE a
        c1 == IF U64Less(c, a) THEN a ELSE c
        b1 == IF U64Less(d, b) THEN d ELSE b
        d1 == IF U64Less(d, b) THEN b ELSE d
        x  == U64Sub(a1, c1)
        y  == U64Sub(b1, d1)
    IN  U64Add(U64Mul(x, x), U64Mul(y, y))

\* whether one of the two subtractions of distance has a minuend smaller than its subtrahend
distanceUnderflows(a, b, c, d) ==
    LET a1 == IF U64Less(c, a) THEN c ELSE a
        c1 == IF U64Less(c, a) THEN a ELSE c
        b1 == IF U64Less(d, b) THEN d ELSE b
        d1 == IF U64Less(d, b) THEN b ELSE d
    IN  U64Less(a1, c1) \/ U64Less(b1, d1)

----------------------------------------------------------------------------
\* The batched homomorphic capability, by the slot vectors the ciphertexts hold.

RECURSIVE MulMod(_, _, _)
MulMod(a, b, t) ==
    IF b = 0 THEN 0
    ELSE LET h == MulMod(a, b \div 2, t)
             d == (2 * h) % t
         IN  IF b % 2 = 1 THEN (d + a) % t ELSE d

\* encoder.Encode then EncryptNew: the residues modulo T of the slot values
Encode(v, t) == [s \in Slots |-> v[s] % t]

Neg_Identity(ct, t) == [s \in Slots |-> ct[s] % t]

\* evaluator.Neg
Neg(ct, t) == [s \in Slots |-> (t - ct[s]) % t]

\* evaluator.Add
Add_Doubling(ct0, ct1, t) == [s \in Slots |-> (((2 * ct0[s]) % t) + ct1[s]) % t]

Add(ct0, ct1, t) == [s \in Slots |-> (ct0[s] + ct1[s]) % t]

\* evaluator.MulNew
MulNew(ct0, ct1, t) == [s \in Slots |-> MulMod(ct0[s], ct1[s], t)]

\* decryptor.DecryptNew then encoder.DecodeUintNew; for the candidates in faulty
\* the decoded slot 2i is off by one
DecodeUintNew(ct, faulty, t) ==
    [s \in Slots |-> IF s % 2 = 0 /\ (s \div 2) \in faulty THEN (ct[s] + 1) % t
                     ELSE ct[s]]

\* the sets of candidates whose decoded slots may be off: none, any one, the first k
FaultPatterns(nb) ==
    { {k} : k \in 0 .. (nb - 1) } \cup { 0 .. (k - 1) : k \in 0 .. nb }

\* the slice Rider of GetCipheredPosition
RiderVector_AllSlots(nb, x, y) ==
    [s \in Slots |-> IF s % 2 = 0 THEN x ELSE y]

RiderVector(nb, x, y) ==
    [s \in Slots |-> IF s < 2 * nb THEN (IF s % 2 = 0 THEN x ELSE y) ELSE 0]

DriverVector_FirstPair(k, x, y) ==
    [s \in Slots |-> IF s = 0 THEN x ELSE IF s = 1 THEN y ELSE 0]

\* driversData[k] of GetNearDrivers
DriverVector(k, x, y) ==
    [s \in Slots |-> IF s = 2 * k THEN x ELSE IF s = 2 * k + 1 THEN y ELSE 0]

RECURSIVE AddDrivers(_, _, _, _, _)
\* the loop adding drivers.DriverCipherTexts[k .. nb-1] into the requester ciphertext
AddDrivers(ct, cts, k, nb, t) ==
    IF k >= nb THEN ct ELSE AddDrivers(Add(ct, cts[k], t), cts, k + 1, nb, t)

\* strconv.Itoa
Itoa(n) == ToString(n)

InitialMinDist_Zero(t) == U64(0)

\* the initial value of minDist
InitialMinDist(t) == U64(t)

Improves_OrEqual(computedDist, curMin) == ~ U64Less(curMin, computedDist)

\* computedDist < minDist
Improves(computedDist, curMin) == U64Less(computedDist, curMin)

ClosestDriverName_EmptyWithoutWinner(idx) == IF idx = 0 THEN "" ELSE "Driver" \o Itoa(idx)

\* "Driver" + strconv.Itoa(minIndex)
ClosestDriverName(idx) == "Driver" \o Itoa(idx)

----------------------------------------------------------------------------
\* The chaincode (SmartContract) and the world state it reads and writes.

\* a world state without keys
EmptyLedger == [k \in {} |-> << >>]

\* a nil byte slice
NilBytes == << >>

\* stub.GetState: the bytes under key, nil when the key is absent
GetState(l, key) == IF key \in DOMAIN l THEN l[key] ELSE NilBytes

\* stub.PutState
PutState(l, key, value) ==
    [k \in (DOMAIN l) \cup { key } |-> IF k = key THEN value ELSE l[k]]

\* stub.DelState
DelState(l, key) == [k \in (DOMAIN l) \ { key } |-> l[k]]

\* json.Marshal of a Service: the members in the order of the struct's fields
Marshal(asset) ==
    << <<"ServiceID", asset.ServiceID>>,
       <<"RiderID", asset.RiderID>>,
       <<"DriverID", asset.DriverID>>,
       <<"TimeStampServizio", asset.TimeStampServizio>>,
       <<"Report", asset.Report>> >>

\* the value json.Unmarshal gives the field tagged name: the last member of
\* that name, the zero value when there is none
Field(json, name) ==
    LET hits == { n \in 1 .. Len(json) : json[n][1] = name }
    IN  IF hits = {}
        THEN ""
        ELSE json[CHOOSE n \in hits : \A m \in hits : m <= n][2]

\* json.Unmarshal into a Service
Unmarshal(json) ==
    [ServiceID |-> Field(json, "ServiceID"),
     RiderID |-> Field(json, "RiderID"),
     DriverID |-> Field(json, "DriverID"),
     TimeStampServizio |-> Field(json, "TimeStampServizio"),
     Report |-> Field(json, "Report")]

\* a transaction function returning without error: the world state it leaves
\* and the values it returns
Ok(l, v) == [err |-> "", ledger |-> l, value |-> v]

\* a transaction function returning an error
Fail(l, msg) == [err |-> msg, ledger |-> l, value |-> << >>]

\* the assets of InitLedger
MockServices(timestampMock) ==
    << [ServiceID |-> "service0", DriverID |-> "Driver91", RiderID |-> "Rider12",
        TimeStampServizio |-> timestampMock, Report |-> "21€"],
       [ServiceID |-> "service1", DriverID |-> "Driver2", RiderID |-> "Rider213",
        TimeStampServizio |-> timestampMock, Report |-> "25€"],
       [ServiceID |-> "service2", DriverID |-> "Driver41", RiderID |-> "Rider221",
        TimeStampServizio |-> timestampMock, Report |-> "57€"],
       [ServiceID |-> "service3", DriverID |-> "Driver32", RiderID |-> "Rider989",
        TimeStampServizio |-> timestampMock, Report |-> "12€"],
       [ServiceID |-> "service4", DriverID |-> "Driver14", RiderID |-> "Rider2782",
        TimeStampServizio |-> timestampMock, Report |-> "7€"],
       [ServiceID |-> "service5", DriverID |-> "Driver53", RiderID |-> "Rider13",
        TimeStampServizio |-> timestampMock, Report |-> "30€"],
       [ServiceID |-> "service6", DriverID |-> "Driver6", RiderID |-> "Rider54",
        TimeStampServizio |-> timestampMock, Report |-> "9€"],
       [ServiceID |-> "service7", DriverID |-> "Driver27", RiderID |-> "Rider22",
        TimeStampServizio |-> timestampMock, Report |-> "24€"],
       [ServiceID |-> "service8", DriverID |-> "Driver18", RiderID |-> "Rider561",
        TimeStampServizio |-> timestampMock, Report |-> "15€"] >>

RECURSIVE PutAssets(_, _, _)
\* the loop of InitLedger over assets[n ..]
PutAssets(l, assets, n) ==
    IF n > Len(assets)
    THEN l
    ELSE PutAssets(PutState(l, assets[n].ServiceID, Marshal(assets[n])), assets, n + 1)

InitLedger_KeepExisting(l, timestampMock) ==
    LET fresh == PutAssets(EmptyLedger, MockServices(timestampMock), 1)
    IN  Ok([k \in (DOMAIN l) \cup (DOMAIN fresh) |-> IF k \in DOMAIN l THEN l[k] ELSE fresh[k]],
           << >>)

\* SmartContract.InitLedger
InitLedger(l, timestampMock) == Ok(PutAssets(l, MockServices(timestampMock), 1), << >>)

\* SmartContract.ServiceExists
ServiceExists(l, serviceID) == GetState(l, serviceID) # NilBytes

CreateService_Overwrite(l, serviceID, driverID, riderID, timestampServizio, fare) ==
    Ok(PutState(l, serviceID,
                Marshal([ServiceID |-> serviceID, DriverID |-> driverID,
                         RiderID |-> riderID, TimeStampServizio |-> timestampServizio,
                         Report |-> fare])),
       << >>)

\* SmartContract.CreateService
CreateService(l, serviceID, driverID, riderID, timestampServizio, fare) ==
    IF ServiceExists(l, serviceID)
    THEN Fail(l, "the asset " \o serviceID \o " already exists")
    ELSE Ok(PutState(l, serviceID,
                     Marshal([ServiceID |-> serviceID, DriverID |-> driverID,
                              RiderID |-> riderID, TimeStampServizio |-> timestampServizio,
                              Report |-> fare])),
            << >>)

\* SmartContract.ReadService
ReadService(l, serviceID) ==
    IF GetState(l, serviceID) = NilBytes
    THEN Fail(l, "the asset " \o serviceID \o " does not exist")
    ELSE Ok(l, << Unmarshal(GetState(l, serviceID)) >>)

UpdateService_Upsert(l, serviceID, driverID, riderID, timeStampServizio, fare) ==
    Ok(PutState(l, serviceID,
                Marshal([ServiceID |-> serviceID, DriverID |-> driverID,
                         RiderID |-> riderID, TimeStampServizio |-> timeStampServizio,
                         Report |-> fare])),
       << >>)

\* SmartContract.UpdateService
UpdateService(l, serviceID, driverID, riderID, timeStampServizio, fare) ==
    IF ~ ServiceExists(l, serviceID)
    THEN Fail(l, "the asset " \o serviceID \o " does not exist")
    ELSE Ok(PutState(l, serviceID,
                     Marshal([ServiceID |-> serviceID, DriverID |-> driverID,
                              RiderID |-> riderID, TimeStampServizio |-> timeStampServizio,
                              Report |-> fare])),
            << >>)

\* SmartContract.DeleteService
DeleteService(l, serviceID) ==
    IF ~ ServiceExists(l, serviceID)
    THEN Fail(l, "the asset " \o serviceID \o " does not exist")
    ELSE Ok(DelState(l, serviceID), << >>)

TransferService_FreshRecord(l, serviceID, newDriver) ==
    LET read == ReadService(l, serviceID)
    IN  IF read.err # ""
        THEN Fail(l, read.err)
        ELSE Ok(PutState(l, serviceID,
                         Marshal([ServiceID |-> "", RiderID |-> "", DriverID |-> newDriver,
                                  TimeStampServizio |-> "", Report |-> ""])),
                << read.value[1].DriverID >>)

TransferService_ReturnsNew(l, serviceID, newDriver) ==
    LET read == ReadService(l, serviceID)
    IN  IF read.err # ""
        THEN Fail(l, read.err)
        ELSE Ok(PutState(l, serviceID,
                         Marshal([read.value[1] EXCEPT !.DriverID = newDriver])),
                << newDriver >>)

\* SmartContract.TransferService
TransferService(l, serviceID, newDriver) ==
    LET read == ReadService(l, serviceID)
    IN  IF read.err # ""
        THEN Fail(l, read.err)
        ELSE LET asset == read.value[1]
             IN  Ok(PutState(l, serviceID, Marshal([asset EXCEPT !.DriverID = newDriver])),
                    << asset.DriverID >>)

\* every key a world state of the model can hold, in the order of a range query
KeyOrder ==
    << "service0", "service1", "service2", "service3", "service4", "service5",
       "service6", "service7", "service8", "svcA" >>

RECURSIVE RangeScan(_, _)
\* the loop of GetAllServices over the iterator of GetStateByRange("", ""),
\* the keys KeyOrder[n ..] still ahead
RangeScan(l, n) ==
    IF n > Len(KeyOrder)
    THEN << >>
    ELSE IF KeyOrder[n] \in DOMAIN l
         THEN << Unmarshal(l[KeyOrder[n]]) >> \o RangeScan(l, n + 1)
         ELSE RangeScan(l, n + 1)

\* SmartContract.GetAllServices
GetAllServices(l) == Ok(l, RangeScan(l, 1))

\* number of parameters a transaction function takes after the context
ParamCount(fn) ==
    CASE fn = "InitLedger" -> 1
      [] fn = "CreateService" -> 5
      [] fn = "ReadService" -> 1
      [] fn = "UpdateService" -> 5
      [] fn = "DeleteService" -> 1
      [] fn = "TransferService" -> 2
      [] fn = "GetAllServices" -> 0

\* the contract API calling the transaction function fn with the strings
\* params: a call with another number of parameters is rejected before the
\* function runs
Invoke(l, fn, params) ==
    IF Len(params) # ParamCount(fn)
    THEN Fail(l, "Incorrect number of params")
    ELSE CASE fn = "InitLedger" -> InitLedger(l, params[1])
           [] fn = "CreateService" ->
                CreateService(l, params[1], params[2], params[3], params[4], params[5])
           [] fn = "ReadService" -> ReadService(l, params[1])
           [] fn = "UpdateService" ->
                UpdateService(l, params[1], params[2], params[3], params[4], params[5])
           [] fn = "DeleteService" -> DeleteService(l, params[1])
           [] fn = "TransferService" -> TransferService(l, params[1], params[2])
           [] fn = "GetAllServices" -> GetAllServices(l)

\* contract.SubmitTransaction: the writes are committed when the function
\* returned no error
SubmitTransaction(l, fn, params) ==
    LET r == Invoke(l, fn, params)
    IN  IF r.err = "" THEN r ELSE [r EXCEPT !.ledger = l]

\* contract.EvaluateTransaction: nothing is committed
EvaluateTransaction(l, fn, params) == [Invoke(l, fn, params) EXCEPT !.ledger = l]

\* the record kept of an invocation: what was called, on which world state,
\* and what came back
TxRecord(l, fn, params, r) ==
    [fn |-> fn, params |-> params, err |-> r.err, value |-> r.value, before |-> l]

\* no invocation yet
NoTx == [fn |-> "", params |-> << >>, err |-> "", value |-> << >>, before |-> EmptyLedger]

----------------------------------------------------------------------------
\* State.

NoRun == [id |-> "", errors |-> 0, minDist |-> U64(0), noisy |-> {}]

ZeroVector == [s \in Slots |-> 0]

\* fares SetRide may return: rand.Intn(100-5)+5
FareSamples == { 5, 99 }

\* the fare string of SetRide: strconv.Itoa(...) + "€"
Fare(n) == Itoa(n) \o "€"

\* the service identifier SetRide returns: uuid.New().String()
NewUUID == "svcA"

\* time.Now().String() when main calls initLedger
BootTime == "t0"

\* time.Now().String() when ObliviousRideMatching returns
RideTime == "t1"

\* nothing constructed, nothing called
Blank ==
    /\ maxvalue = 0
    /\ riderPosX = 0
    /\ riderPosY = 0
    /\ riderCiphertext = ZeroVector
    /\ DriversData = << >>
    /\ DriverCipherTexts = << >>
    /\ result = ZeroVector
    /\ noisy = {}
    /\ i = 0
    /\ minIndex = 0
    /\ minPosX = 0
    /\ minPosY = 0
    /\ minDist = U64(0)
    /\ errors = 0
    /\ ClosestDriverID = ""
    /\ isClosestDriverFound = FALSE
    /\ submitted = << >>
    /\ run = 0
    /\ firstRun = NoRun
    /\ args = << >>
    /\ dist = U64(0)
    /\ underflow = FALSE
    /\ ledger = EmptyLedger
    /\ txResult = NoTx
    /\ steps = << >>

Init ==
    /\ pc = "main"
    /\ nbDrivers \in 0 .. MaxDrivers
    /\ paramsT = 0
    /\ Blank

arithVars == <<args, dist, underflow>>

selectVars == <<result, noisy, i, minIndex, minPosX, minPosY, minDist, errors>>

ledgerVars == <<ledger, txResult>>

\* everything but the world state and the record of the last invocation
roundVars ==
    <<pc, nbDrivers, paramsT, maxvalue, riderPosX, riderPosY, riderCiphertext, DriversData,
      DriverCipherTexts, selectVars, ClosestDriverID, isClosestDriverFound, submitted, run,
      firstRun, arithVars, steps>>

\* initLedger, called by main before createServices
initLedger ==
    /\ pc = "main"
    /\ LET r == SubmitTransaction(ledger, "InitLedger", <<BootTime>>)
       IN  /\ ledger' = r.ledger
           /\ txResult' = TxRecord(ledger, "InitLedger", <<BootTime>>, r)
           /\ pc' = IF r.err = "" THEN "start" ELSE "init_panic"
    /\ UNCHANGED <<nbDrivers, paramsT, maxvalue, riderPosX, riderPosY, riderCiphertext,
                   DriversData, DriverCipherTexts, selectVars, ClosestDriverID,
                   isClosestDriverFound, submitted, run, firstRun, arithVars, steps>>

\* NewRider
NewRider ==
    /\ pc = "start"
    /\ paramsT' = ParamT
    /\ steps' = Append(steps, "Setup")
    /\ pc' = "setup"
    /\ UNCHANGED <<nbDrivers, maxvalue, riderPosX, riderPosY, riderCiphertext, DriversData,
                   DriverCipherTexts, selectVars, ClosestDriverID, isClosestDriverFound,
                   submitted, run, firstRun, arithVars, ledgerVars>>

AfterSetupError_Continue == "setup"

\* where NewRider leaves the round when the parameters or the PRNG fail: panic(err)
AfterSetupError == "setup_panic"

\* NewRider when bfv.NewParametersFromLiteral or utils.NewPRNG returns an error
NewRiderPanic ==
    /\ pc = "start"
    /\ steps' = Append(steps, "SetupFailed")
    /\ pc' = AfterSetupError
    /\ UNCHANGED <<nbDrivers, paramsT, maxvalue, riderPosX, riderPosY, riderCiphertext,
                   DriversData, DriverCipherTexts, selectVars, ClosestDriverID,
                   isClosestDriverFound, submitted, run, firstRun, arithVars, ledgerVars>>

\* Rider.GetCipheredPosition
GetCipheredPosition ==
    /\ pc = "setup"
    /\ maxvalue' = MaxValue(paramsT)
    /\ \E p \in Grid(RiderSamplePositions, MaxValue(paramsT)) :
         /\ riderPosX' = p[1]
         /\ riderPosY' = p[2]
         /\ riderCiphertext' = Encode(RiderVector(nbDrivers, p[1], p[2]), paramsT)
    /\ steps' = Append(steps, "Encrypt")
    /\ pc' = "encrypted"
    /\ UNCHANGED <<nbDrivers, paramsT, DriversData, DriverCipherTexts, selectVars,
                   ClosestDriverID, isClosestDriverFound, submitted, run, firstRun,
                   arithVars, ledgerVars>>

\* GetNearDrivers
GetNearDrivers ==
    /\ pc = "encrypted"
    /\ maxvalue' = MaxValue(paramsT)
    /\ \E ps \in [0 .. (nbDrivers - 1) -> Grid(SamplePositions, MaxValue(paramsT))] :
         /\ DriversData' = [k \in 0 .. (nbDrivers - 1) |-> DriverVector(k, ps[k][1], ps[k][2])]
         /\ DriverCipherTexts' =
              [k \in 0 .. (nbDrivers - 1) |->
                  Encode(DriverVector(k, ps[k][1], ps[k][2]), paramsT)]
    /\ ClosestDriverID' = ""
    /\ steps' = Append(steps, "Generate")
    /\ pc' = "generated"
    /\ UNCHANGED <<nbDrivers, paramsT, riderPosX, riderPosY, riderCiphertext, selectVars,
                   isClosestDriverFound, submitted, run, firstRun, arithVars, ledgerVars>>

\* Rider.FindClosestDriver up to the selection loop: negate, accumulate, square, decode
Evaluate ==
    /\ pc = "generated"
    /\ LET acc == AddDrivers(Neg(riderCiphertext, paramsT), DriverCipherTexts, 0,
                             nbDrivers, paramsT)
           squared == MulNew(acc, acc, paramsT)
       IN  /\ riderCiphertext' = acc
           /\ \E faulty \in FaultPatterns(nbDrivers) :
                /\ noisy' = faulty
                /\ result' = DecodeUintNew(squared, faulty, paramsT)
    /\ minIndex' = 0
    /\ minPosX' = paramsT
    /\ minPosY' = paramsT
    /\ minDist' = InitialMinDist(paramsT)
    /\ errors' = 0
    /\ i' = 0
    /\ run' = run + 1
    /\ steps' = Append(steps, "Evaluate")
    /\ pc' = "select"
    /\ UNCHANGED <<nbDrivers, paramsT, maxvalue, riderPosX, riderPosY, DriversData,
                   DriverCipherTexts, ClosestDriverID, isClosestDriverFound, submitted,
                   firstRun, arithVars, ledgerVars>>

ComputedDist_ModT(k) == U64((result[2 * k] + result[2 * k + 1]) % paramsT)

\* computedDist of candidate k
ComputedDist(k) == U64Add(U64(result[2 * k]), U64(result[2 * k + 1]))

\* expectedDist of candidate k
ExpectedDist(k) ==
    distance(U64(DriversData[k][2 * k]), U64(DriversData[k][2 * k + 1]),
             U64(riderPosX), U64(riderPosY))

Consistent_Always(computedDist, expectedDist) == TRUE

\* computedDist == expectedDist
Consistent(computedDist, expectedDist) == computedDist = expectedDist

\* one iteration of the selection loop of Rider.FindClosestDriver
SelectStep ==
    /\ pc = "select"
    /\ i < nbDrivers
    /\ LET computedDist == ComputedDist(i)
           expectedDist == ExpectedDist(i)
       IN  IF Consistent(computedDist, expectedDist)
           THEN /\ IF Improves(computedDist, minDist)
                   THEN /\ minIndex' = i
                        /\ minPosX' = DriversData[i][2 * i]
                        /\ minPosY' = DriversData[i][2 * i + 1]
                        /\ minDist' = computedDist
                   ELSE UNCHANGED <<minIndex, minPosX, minPosY, minDist>>
                /\ UNCHANGED errors
           ELSE /\ errors' = errors + 1
                /\ UNCHANGED <<minIndex, minPosX, minPosY, minDist>>
    /\ i' = i + 1
    /\ UNCHANGED <<pc, nbDrivers, paramsT, maxvalue, riderPosX, riderPosY, riderCiphertext,
                   DriversData, DriverCipherTexts, result, noisy, ClosestDriverID,
                   isClosestDriverFound, submitted, run, firstRun, arithVars, ledgerVars, steps>>

SelectFinish_Retry ==
    /\ pc = "select"
    /\ i >= nbDrivers
    /\ ClosestDriverID' = ClosestDriverName(minIndex)
    /\ steps' = Append(steps, "Select")
    /\ pc' = IF errors > 0 THEN "generated" ELSE "selected"
    /\ UNCHANGED <<nbDrivers, paramsT, maxvalue, riderPosX, riderPosY, riderCiphertext,
                   DriversData, DriverCipherTexts, selectVars, isClosestDriverFound,
                   submitted, run, firstRun, arithVars, ledgerVars>>

\* the end of Rider.FindClosestDriver: the winner's identifier is stored
SelectFinish ==
    /\ pc = "select"
    /\ i >= nbDrivers
    /\ ClosestDriverID' = ClosestDriverName(minIndex)
    /\ steps' = Append(steps, "Select")
    /\ pc' = "selected"
    /\ UNCHANGED <<nbDrivers, paramsT, maxvalue, riderPosX, riderPosY, riderCiphertext,
                   DriversData, DriverCipherTexts, selectVars, isClosestDriverFound,
                   submitted, run, firstRun, arithVars, ledgerVars>>

\* the end of ObliviousRideMatching
ObliviousReturn ==
    /\ pc = "selected"
    /\ isClosestDriverFound' = (ClosestDriverID # "")
    /\ pc' = "returned"
    /\ UNCHANGED <<nbDrivers, paramsT, maxvalue, riderPosX, riderPosY, riderCiphertext,
                   DriversData, DriverCipherTexts, selectVars, ClosestDriverID, submitted,
                   run, firstRun, arithVars, ledgerVars, steps>>

\* createServices once ObliviousRideMatching returned found: SetRide, then the
\* CreateService submission, panic when it fails
SubmitCreate(found) ==
    IF found
    THEN \E fare \in FareSamples :
           LET params == <<NewUUID, ClosestDriverID, RideTime, Fare(fare)>>
               r == SubmitTransaction(ledger, "CreateService", params)
           IN  /\ submitted' = Append(submitted, <<"CreateService">> \o params)
               /\ ledger' = r.ledger
               /\ txResult' = TxRecord(ledger, "CreateService", params, r)
               /\ pc' = IF r.err = "" THEN "done" ELSE "submit_panic"
    ELSE /\ pc' = "done"
         /\ UNCHANGED <<submitted, ledgerVars>>

createServices_Early ==
    /\ pc = "select"
    /\ i >= nbDrivers
    /\ SubmitCreate(TRUE)
    /\ UNCHANGED <<nbDrivers, paramsT, maxvalue, riderPosX, riderPosY, riderCiphertext,
                   DriversData, DriverCipherTexts, selectVars, ClosestDriverID,
                   isClosestDriverFound, run, firstRun, arithVars, steps>>

\* createServices after ObliviousRideMatching returned
createServices ==
    /\ pc = "returned"
    /\ SubmitCreate(isClosestDriverFound)
    /\ UNCHANGED <<nbDrivers, paramsT, maxvalue, riderPosX, riderPosY, riderCiphertext,
                   DriversData, DriverCipherTexts, selectVars, ClosestDriverID,
                   isClosestDriverFound, run, firstRun, arithVars, steps>>

\* the global createdServiceID of the application
createdServiceID == IF submitted = << >> THEN "" ELSE submitted[Len(submitted)][2]

Next ==
    \/ initLedger
    \/ NewRider
    \/ NewRiderPanic
    \/ GetCipheredPosition
    \/ GetNearDrivers
    \/ Evaluate
    \/ SelectStep
    \/ SelectFinish
    \/ ObliviousReturn
    \/ createServices

Spec == Init /\ [][Next]_vars

----------------------------------------------------------------------------
\* FindClosestDriver called a second time on the same ciphertext, Drivers and Rider.

CallAgain ==
    /\ pc = "selected"
    /\ run = 1
    /\ firstRun' = [id |-> ClosestDriverID, errors |-> errors, minDist |-> minDist,
                    noisy |-> noisy]
    /\ pc' = "generated"
    /\ UNCHANGED <<nbDrivers, paramsT, maxvalue, riderPosX, riderPosY, riderCiphertext,
                   DriversData, DriverCipherTexts, selectVars, ClosestDriverID,
                   isClosestDriverFound, submitted, run, arithVars, ledgerVars, steps>>

NextTwice ==
    \/ Next
    \/ CallAgain

SpecTwice == Init /\ [][NextTwice]_vars

----------------------------------------------------------------------------
\* distance called directly, for any plaintext modulus and coordinates below maxvalue.

Moduli == (1 .. MaxModulus) \cup { ParamT }

Coordinates(mv) ==
    { c \in (0 .. MaxValue(MaxModulus)) \cup SampleCoordinates : c < mv }

InitArith ==
    /\ pc = "arith"
    /\ nbDrivers = 0
    /\ paramsT \in Moduli
    /\ Blank

DistanceCall ==
    /\ pc = "arith"
    /\ maxvalue' = MaxValue(paramsT)
    /\ \E a, b, c, d \in Coordinates(MaxValue(paramsT)) :
         /\ args' = <<a, b, c, d>>
         /\ dist' = distance(U64(a), U64(b), U64(c), U64(d))
         /\ underflow' = distanceUnderflows(U64(a), U64(b), U64(c), U64(d))
    /\ pc' = "arith_done"
    /\ UNCHANGED <<nbDrivers, paramsT, riderPosX, riderPosY, riderCiphertext,
                   DriversData, DriverCipherTexts, selectVars, ClosestDriverID,
                   isClosestDriverFound, submitted, run, firstRun, ledgerVars, steps>>

NextArith == DistanceCall

SpecArith == InitArith /\ [][NextArith]_vars

----------------------------------------------------------------------------
\* The slot indices GetCipheredPosition writes, for the candidate counts
\* ObliviousRideMatching can be called with; the vector has all its 2^LogN slots
\* here, and only the indices are followed.

\* LogN of bfv.PN13QP218
LogN == 13

\* len(Rider) = 1 << rider.Params.LogN()
SlotCount == 2 ^ LogN

\* the candidate count createServices passes
defaultnbDrivers == 2048

\* candidate counts ObliviousRideMatching is called with
CandidateCounts == { 0, 1, defaultnbDrivers, SlotCount \div 2, SlotCount \div 2 + 1 }

InitSlots ==
    /\ pc = "slots"
    /\ nbDrivers \in CandidateCounts
    /\ paramsT = 0
    /\ Blank

\* NewRider, then GetCipheredPosition up to the allocation of Rider
AllocateRider ==
    /\ pc = "slots"
    /\ paramsT' = ParamT
    /\ maxvalue' = MaxValue(ParamT)
    /\ i' = 0
    /\ pc' = "fill"
    /\ UNCHANGED <<nbDrivers, riderPosX, riderPosY, riderCiphertext, DriversData,
                   DriverCipherTexts, result, noisy, minIndex, minPosX, minPosY, minDist,
                   errors, ClosestDriverID, isClosestDriverFound, submitted, run, firstRun,
                   arithVars, ledgerVars, steps>>

\* one iteration of the loop of GetCipheredPosition: Rider[i<<1] and Rider[(i<<1)+1]
\* are written, a write past the end of Rider panics
FillStep ==
    /\ pc = "fill"
    /\ i < nbDrivers
    /\ IF 2 * i >= SlotCount \/ 2 * i + 1 >= SlotCount
       THEN /\ pc' = "index_panic"
            /\ UNCHANGED i
       ELSE /\ i' = i + 1
            /\ UNCHANGED pc
    /\ UNCHANGED <<nbDrivers, paramsT, maxvalue, riderPosX, riderPosY, riderCiphertext,
                   DriversData, DriverCipherTexts, result, noisy, minIndex, minPosX, minPosY,
                   minDist, errors, ClosestDriverID, isClosestDriverFound, submitted, run,
                   firstRun, arithVars, ledgerVars, steps>>

\* the loop of GetCipheredPosition is over
FillDone ==
    /\ pc = "fill"
    /\ i >= nbDrivers
    /\ pc' = "filled"
    /\ UNCHANGED <<nbDrivers, paramsT, maxvalue, riderPosX, riderPosY, riderCiphertext,
                   DriversData, DriverCipherTexts, selectVars, ClosestDriverID,
                   isClosestDriverFound, submitted, run, firstRun, arithVars, ledgerVars,
                   steps>>

NextSlots ==
    \/ AllocateRider
    \/ FillStep
    \/ FillDone

SpecSlots == InitSlots /\ [][NextSlots]_vars

----------------------------------------------------------------------------
\* The transaction functions of the chaincode invoked in any order on a world
\* state that starts empty.

\* service identifiers the invocations name
KeySamples == { "service0", NewUUID }

\* driver identifiers the invocations pass
DriverSamples == { "Driver0", "Driver91" }

\* rider identifiers the invocations pass
RiderSamples == { "Rider787" }

\* timestamps the invocations pass
TimestampSamples == { BootTime, RideTime }

InitChaincode ==
    /\ pc = "ledger"
    /\ nbDrivers = 0
    /\ paramsT = 0
    /\ Blank

\* a committed or evaluated invocation with outcome r
Transact(fn, params, r) ==
    /\ pc = "ledger"
    /\ ledger' = r.ledger
    /\ txResult' = TxRecord(ledger, fn, params, r)
    /\ UNCHANGED roundVars

SubmitInitLedger ==
    \E ts \in TimestampSamples :
      Transact("InitLedger", <<ts>>, SubmitTransaction(ledger, "InitLedger", <<ts>>))

SubmitCreateService ==
    \E id \in KeySamples, d \in DriverSamples, r \in RiderSamples,
       ts \in TimestampSamples, f \in FareSamples :
      LET params == <<id, d, r, ts, Fare(f)>>
      IN  Transact("CreateService", params,
                   SubmitTransaction(ledger, "CreateService", params))

EvaluateReadService ==
    \E id \in KeySamples :
      Transact("ReadService", <<id>>, EvaluateTransaction(ledger, "ReadService", <<id>>))

SubmitUpdateService ==
    \E id \in KeySamples, d \in DriverSamples, r \in RiderSamples,
       ts \in TimestampSamples, f \in FareSamples :
      LET params == <<id, d, r, ts, Fare(f)>>
      IN  Transact("UpdateService", params,
                   SubmitTransaction(ledger, "UpdateService", params))

SubmitDeleteService ==
    \E id \in KeySamples :
      Transact("DeleteService", <<id>>, SubmitTransaction(ledger, "DeleteService", <<id>>))

SubmitTransferService ==
    \E id \in KeySamples, d \in DriverSamples :
      Transact("TransferService", <<id, d>>,
               SubmitTransaction(ledger, "TransferService", <<id, d>>))

EvaluateGetAllServices ==
    Transact("GetAllServices", << >>, EvaluateTransaction(ledger, "GetAllServices", << >>))

NextChaincode ==
    \/ SubmitInitLedger
    \/ SubmitCreateService
    \/ EvaluateReadService
    \/ SubmitUpdateService
    \/ SubmitDeleteService
    \/ SubmitTransferService
    \/ EvaluateGetAllServices

SpecChaincode == InitChaincode /\ [][NextChaincode]_vars

----------------------------------------------------------------------------
\* Quantities the properties are stated with, in exact integer arithmetic.

Candidates == 0 .. (nbDrivers - 1)

PosX(k) == DriversData[k][2 * k]

PosY(k) == DriversData[k][2 * k + 1]

Square(n) == n * n

\* squared Euclidean distance of two points
SqDist(a, b, c, d) == Square(a - c) + Square(b - d)

\* squared Euclidean distance between candidate k and the requester
TrueDist(k) == SqDist(PosX(k), PosY(k), riderPosX, riderPosY)

\* the lowest index among the candidates at minimal squared distance
Nearest ==
    CHOOSE k \in Candidates :
        \A j \in Candidates :
            TrueDist(k) < TrueDist(j) \/ (TrueDist(k) = TrueDist(j) /\ k <= j)

\* FindClosestDriver has returned
Returned == pc \in { "selected", "returned", "done", "submit_panic" }

\* createServices is over, by returning or by the panic after a failed submission
RoundOver == pc \in { "done", "submit_panic" }

\* the decoded result is the one of exact slot arithmetic modulo T
CapabilityExact == noisy = {}

\* candidate k fails the consistency check
Mismatch(k) == ComputedDist(k) # ExpectedDist(k)

----------------------------------------------------------------------------
\* C1: with exact slot arithmetic and at least one candidate, FindClosestDriver
\* returns the identifier of the candidate at minimal squared Euclidean distance
\* from the requester, the lowest index among ties.
C1_ReturnsNearest ==
    (pc = "selected" /\ CapabilityExact /\ nbDrivers >= 1)
        => ClosestDriverID = "Driver" \o ToString(Nearest)

\* C2: after negation, accumulation and squaring modulo T, decoded slot 2k is
\* (driverX_k - riderX)^2 and slot 2k+1 is (driverY_k - riderY)^2 as exact
\* integers, and their sum is the squared Euclidean distance of candidate k.
C2_SlotsHoldSquares ==
    (pc \in { "select", "selected" } /\ CapabilityExact)
        => \A k \in Candidates :
              /\ result[2 * k] = Square(PosX(k) - riderPosX)
              /\ result[2 * k + 1] = Square(PosY(k) - riderPosY)
              /\ result[2 * k] + result[2 * k + 1] = TrueDist(k)

\* C2 witness: an evaluated round with a candidate left of and below the requester,
\* whose squared distance is not below T
C2_Witness ==
    /\ pc = "select"
    /\ CapabilityExact
    /\ nbDrivers >= 2
    /\ \E k \in Candidates :
         /\ PosX(k) < riderPosX
         /\ PosY(k) < riderPosY
         /\ TrueDist(k) >= paramsT
         /\ result[2 * k] + result[2 * k + 1] = TrueDist(k)

\* C3: when every candidate of the round fails the consistency check, the winning
\* identifier is empty and ObliviousRideMatching reports that no driver was found.
C3_AllFailedGivesEmpty ==
    (Returned /\ nbDrivers >= 1 /\ \A k \in Candidates : Mismatch(k))
        => /\ ClosestDriverID = ""
           /\ (pc \in { "returned", "done", "submit_panic" } => ~ isClosestDriverFound)

\* C4: a round with no candidate ends with the empty identifier, reports that no
\* driver was found and submits no CreateService.
C4_ZeroCandidatesNoMatch ==
    (RoundOver /\ nbDrivers = 0)
        => /\ ClosestDriverID = ""
           /\ ~ isClosestDriverFound
           /\ submitted = << >>

\* C5 as stated: the squared Euclidean distance of two coordinates with components
\* in [0, maxvalue) is strictly less than T.
C5_DistanceBelowT ==
    (pc = "arith_done")
        => SqDist(args[1], args[2], args[3], args[4]) < paramsT

\* C5 as amended: each squared component difference is strictly less than T, so
\* the squared Euclidean distance is strictly less than 2T (it may reach T).
C5_ComponentsBelowT ==
    (pc = "arith_done")
        => /\ args[1] < maxvalue /\ args[2] < maxvalue
           /\ args[3] < maxvalue /\ args[4] < maxvalue
           /\ Square(args[1] - args[3]) < paramsT
           /\ Square(args[2] - args[4]) < paramsT
           /\ SqDist(args[1], args[2], args[3], args[4]) < 2 * paramsT
           /\ U64Less(dist, U64(2 * paramsT))

\* C5 witness: two coordinates in range whose squared distance is not below T
C5_Witness ==
    /\ pc = "arith_done"
    /\ SqDist(args[1], args[2], args[3], args[4]) >= paramsT
    /\ Square(args[1] - args[3]) < paramsT
    /\ Square(args[2] - args[4]) < paramsT

\* C6: no subtraction inside distance(a, b, c, d) has a minuend smaller than its
\* subtrahend, for coordinates in [0, maxvalue) in any order.
C6_NoUnderflow ==
    (pc = "arith_done") => ~ underflow

\* the requester at (10, 10), candidates at (12, 10), (10, 7), (100, 100), (10, 10)
Scenario ==
    /\ nbDrivers = 4
    /\ riderPosX = 10 /\ riderPosY = 10
    /\ PosX(0) = 12 /\ PosY(0) = 10
    /\ PosX(1) = 10 /\ PosY(1) = 7
    /\ PosX(2) = 100 /\ PosY(2) = 100
    /\ PosX(3) = 10 /\ PosY(3) = 10
    /\ CapabilityExact

\* C7: in the scenario the computed squared distances are 4, 9, 16200, 0, no
\* candidate fails the check, the minimum is 0 and the winner is Driver3.
C7_ScenarioOutcome ==
    (Returned /\ Scenario)
        => /\ ComputedDist(0) = U64(4)
           /\ ComputedDist(1) = U64(9)
           /\ ComputedDist(2) = U64(16200)
           /\ ComputedDist(3) = U64(0)
           /\ errors = 0
           /\ minDist = U64(0)
           /\ minIndex = 3
           /\ ClosestDriverID = "Driver3"

\* C7 witness: the scenario's round after FindClosestDriver returned
C7_Witness ==
    /\ pc = "selected"
    /\ Scenario
    /\ ClosestDriverID = "Driver3"

\* C8 as stated: with T = 0x3ee0001 the coordinate bound computed by
\* GetCipheredPosition and GetNearDrivers is 256.
C8_MaxValueIs256 ==
    (pc \in { "encrypted", "generated" }) => (paramsT = 65929217 /\ maxvalue = 256)

\* C8 as amended: with T = 0x3ee0001 = 65929217 the coordinate bound computed by
\* GetCipheredPosition and GetNearDrivers is 8119.
C8_MaxValueIs8119 ==
    (pc \in { "encrypted", "generated" }) => (paramsT = 65929217 /\ maxvalue = 8119)

\* C8 witness: GetNearDrivers has computed the bound under the configured modulus
C8_Witness ==
    /\ pc = "generated"
    /\ paramsT = 65929217
    /\ maxvalue = 8119
    /\ Square(maxvalue) <= paramsT
    /\ Square(maxvalue + 1) > paramsT

\* the candidates located exactly at the requester's coordinate
AtRider == { k \in Candidates : PosX(k) = riderPosX /\ PosY(k) = riderPosY }

\* C9: with exact slot arithmetic, when some candidate is at the requester's
\* coordinate the minimum is 0 and the winner is the lowest-indexed such candidate.
C9_CoincidentWins ==
    (pc = "selected" /\ CapabilityExact /\ AtRider # {})
        => /\ minDist = U64(0)
           /\ minIndex \in AtRider
           /\ \A k \in AtRider : minIndex <= k
           /\ ClosestDriverID = "Driver" \o ToString(minIndex)

\* C9 witness: two candidates at the requester's coordinate, after a different one
C9_Witness ==
    /\ pc = "selected"
    /\ CapabilityExact
    /\ Cardinality(AtRider) >= 2
    /\ 0 \notin AtRider
    /\ minIndex \in AtRider
    /\ minDist = U64(0)

\* C10: a second FindClosestDriver call with the same requester ciphertext, Drivers
\* and Rider yields the winning identifier, error count and minimum distance of
\* the first call (the capability being exact in both).
C10_SecondRunSame ==
    (pc = "selected" /\ run = 2 /\ CapabilityExact /\ firstRun.noisy = {})
        => /\ ClosestDriverID = firstRun.id
           /\ errors = firstRun.errors
           /\ minDist = firstRun.minDist

\* the key the last invocation named
TxKey == txResult.params[1]

\* the last invocation was fn, called with the number of parameters fn takes
Called(fn) == txResult.fn = fn /\ Len(txResult.params) = ParamCount(fn)

\* C11: CreateService with a serviceID already on the ledger returns an error and
\* leaves the ledger unchanged; with a new serviceID it succeeds, and ReadService of
\* that serviceID then returns exactly the driverID, riderID, timestamp and fare
\* that were supplied.
C11_CreateService ==
    Called("CreateService")
        => IF TxKey \in DOMAIN txResult.before
           THEN /\ txResult.err # ""
                /\ ledger = txResult.before
           ELSE /\ txResult.err = ""
                /\ ReadService(ledger, TxKey).err = ""
                /\ ReadService(ledger, TxKey).value =
                     << [ServiceID |-> TxKey,
                         DriverID |-> txResult.params[2],
                         RiderID |-> txResult.params[3],
                         TimeStampServizio |-> txResult.params[4],
                         Report |-> txResult.params[5]] >>
                /\ \A k \in DOMAIN txResult.before : ledger[k] = txResult.before[k]

\* a CreateService was rejected for a serviceID that holds another record than the
\* one supplied
C11_Witness ==
    /\ Called("CreateService")
    /\ TxKey \in DOMAIN txResult.before
    /\ txResult.err = "the asset svcA already exists"
    /\ Unmarshal(txResult.before[TxKey]).DriverID # txResult.params[2]
    /\ ledger = txResult.before

\* C12: ReadService, UpdateService and DeleteService called with a serviceID that is
\* not on the ledger return an error, return no record and leave the ledger unchanged.
C12_MissingServiceFails ==
    ( /\ \/ Called("ReadService")
         \/ Called("UpdateService")
         \/ Called("DeleteService")
      /\ TxKey \notin DOMAIN txResult.before )
        => /\ txResult.err # ""
           /\ txResult.value = << >>
           /\ ledger = txResult.before

\* an UpdateService was rejected on a ledger that holds other services
C12_Witness ==
    /\ Called("UpdateService")
    /\ TxKey \notin DOMAIN txResult.before
    /\ DOMAIN txResult.before # {}
    /\ txResult.err = "the asset service0 does not exist"
    /\ ledger = txResult.before

\* the steps of ObliviousRideMatching in the order of its statements
StepOrder == <<"Setup", "Encrypt", "Generate", "Evaluate", "Select">>

\* s is an initial part of t
IsPrefix(s, t) == Len(s) <= Len(t) /\ \A n \in 1 .. Len(s) : s[n] = t[n]

\* Setup was entered and failed
SetupFailed == \E n \in 1 .. Len(steps) : steps[n] = "SetupFailed"

\* C13: ObliviousRideMatching carries out Setup, Encrypt requester, Generate
\* candidates, Evaluate and Select in this order, each exactly once: the steps done
\* so far are always an initial part of that list, and when the round has returned
\* they are exactly that list; no step is repeated or retried.
C13_FixedOrder ==
    /\ ~ SetupFailed => IsPrefix(steps, StepOrder)
    /\ Returned => steps = StepOrder
    /\ pc = "encrypted" => steps = <<"Setup", "Encrypt">>
    /\ pc = "generated" => steps = <<"Setup", "Encrypt", "Generate">>
    /\ pc = "select" => steps = <<"Setup", "Encrypt", "Generate", "Evaluate">>

\* a round returned after consistency errors, every step done once
C13_Witness ==
    /\ pc = "returned"
    /\ errors > 0
    /\ run = 1
    /\ steps = StepOrder

\* the world state main leaves before createServices is called
LedgerAtStart == InitLedger(EmptyLedger, BootTime).ledger

\* C14: when Setup fails (NewRider panics) the round is over: no other step was or
\* can be carried out, no winning identifier is returned and no CreateService is
\* submitted; the ledger is as it was when the round started.
C14_SetupFailureAborts ==
    SetupFailed
        => /\ steps = <<"SetupFailed">>
           /\ pc = "setup_panic"
           /\ ~ ENABLED Next
           /\ run = 0
           /\ ClosestDriverID = ""
           /\ ~ isClosestDriverFound
           /\ submitted = << >>
           /\ ledger = LedgerAtStart

\* a round of several candidates stopped by the failure of Setup
C14_Witness ==
    /\ pc = "setup_panic"
    /\ nbDrivers > 1
    /\ steps = <<"SetupFailed">>
    /\ txResult.fn = "InitLedger"

\* candidates below n whose computed distance differs from the expected one
Mismatches(n) == { k \in 0 .. (n - 1) : Mismatch(k) }

\* C15: whatever the decoded result vector, the selection loop visits every
\* candidate and completes, whether or not a candidate mismatched: the loop index
\* never passes nbDrivers, the round returns only with i = nbDrivers, and when the
\* loop has ended errors is exactly the number of candidates whose two slots do not
\* add up to distance(...).
C15_ErrorsCountMismatches ==
    /\ pc = "select" => (i <= nbDrivers /\ errors <= i)
    /\ Returned => i = nbDrivers
    /\ pc = "selected" => errors = Cardinality(Mismatches(nbDrivers))

\* a loop that completed over some mismatching and some consistent candidates
C15_Witness ==
    /\ pc = "selected"
    /\ i = nbDrivers
    /\ errors = 2
    /\ nbDrivers = 3
    /\ Mismatches(nbDrivers) = noisy

\* C16: the winning identifier never designates a candidate whose computed distance
\* differs from its expected distance.
C16_WinnerConsistent ==
    Returned
        => \A k \in Candidates : ClosestDriverID = ClosestDriverName(k) => ~ Mismatch(k)

\* C17: the matching round writes nothing to the ledger; the only write a round
\* attempts is one CreateService submission, made after Select has produced the
\* winning identifier and only when a driver was reported found; it touches no key
\* but the created one; a round that stops earlier leaves the ledger as it was.
C17_OnlyWriteIsCreate ==
    /\ pc \in { "start", "setup", "encrypted", "generated", "select", "selected",
                "returned", "setup_panic" }
         => /\ submitted = << >>
            /\ txResult.fn = "InitLedger"
            /\ ledger = LedgerAtStart
    /\ Len(submitted) <= 1
    /\ submitted # << >>
         => /\ RoundOver
            /\ isClosestDriverFound
            /\ steps = StepOrder
            /\ submitted[1][1] = "CreateService"
            /\ submitted[1][3] = ClosestDriverID
            /\ txResult.fn = "CreateService"
            /\ txResult.before = LedgerAtStart
            /\ \A k \in DOMAIN LedgerAtStart :
                  k \in DOMAIN ledger /\ ledger[k] = LedgerAtStart[k]
            /\ DOMAIN ledger \subseteq (DOMAIN LedgerAtStart) \cup { createdServiceID }
    /\ (RoundOver /\ submitted = << >>) => ledger = LedgerAtStart

\* a round that made its one submission after selecting among several candidates
C17_Witness ==
    /\ RoundOver
    /\ nbDrivers > 1
    /\ Len(submitted) = 1
    /\ submitted[1][3] = "Driver1"
    /\ steps = StepOrder

\* the rider identifier main passes to createServices
RequesterID == "Rider787"

\* C18: after a round whose candidates were all evaluated exactly, the
\* CreateService submission of createServices is accepted and commits, and
\* ReadService of createdServiceID then returns a record whose DriverID is the
\* winning identifier, whose RiderID is the requester's identifier and whose Report
\* is the fare.
C18_CreateCommits ==
    (RoundOver /\ isClosestDriverFound /\ nbDrivers >= 1 /\ CapabilityExact)
        => /\ pc = "done"
           /\ txResult.fn = "CreateService"
           /\ txResult.err = ""
           /\ ReadService(ledger, createdServiceID).err = ""
           /\ ReadService(ledger, createdServiceID).value[1].DriverID = ClosestDriverID
           /\ ReadService(ledger, createdServiceID).value[1].RiderID = RequesterID
           /\ ReadService(ledger, createdServiceID).value[1].Report = submitted[1][5]

\* C19: N >= 2 * nbDrivers in every round: for every candidate count
\* ObliviousRideMatching is called with, the slot indices 2i and 2i+1 of every
\* i < nbDrivers are below N = 2^LogN, and no slot outside the vector is accessed.
C19_SlotsInRange ==
    pc \in { "fill", "filled", "index_panic" }
        => /\ SlotCount >= 2 * nbDrivers
           /\ pc # "index_panic"
           /\ \A k \in 0 .. (nbDrivers - 1) : 2 * k + 1 < SlotCount

\* slots of candidate k's vector that are not zero
Support(k) == { s \in Slots : DriversData[k][s] # 0 }

\* C20: the vector GetNearDrivers builds for candidate k is zero outside the slots
\* 2k and 2k+1 and holds a coordinate below maxvalue in each of the two; the slot
\* pairs of different candidates are disjoint, so the slot-wise sum of all
\* candidate ciphertexts holds candidate k's coordinate at (2k, 2k+1).
C20_DisjointSlotPairs ==
    pc = "generated"
        => /\ DOMAIN DriversData = Candidates
           /\ \A k \in Candidates :
                /\ \A s \in Slots \ { 2 * k, 2 * k + 1 } : DriversData[k][s] = 0
                /\ DriversData[k][2 * k] < maxvalue
                /\ DriversData[k][2 * k + 1] < maxvalue
                /\ DriverCipherTexts[k] = Encode(DriversData[k], paramsT)
           /\ \A j, k \in Candidates : j # k => Support(j) \cap Support(k) = {}
           /\ LET sum == AddDrivers(ZeroVector, DriverCipherTexts, 0, nbDrivers, paramsT)
              IN  \A k \in Candidates :
                    /\ sum[2 * k] = DriversData[k][2 * k]
                    /\ sum[2 * k + 1] = DriversData[k][2 * k + 1]

\* the most candidates of a round, at pairwise different positions
C20_Witness ==
    /\ pc = "generated"
    /\ nbDrivers >= 3
    /\ \A j, k \in Candidates :
         j # k => <<PosX(j), PosY(j)>> # <<PosX(k), PosY(k)>>
    /\ \A k \in Candidates : Support(k) = { 2 * k, 2 * k + 1 }

\* C21: the vector GetCipheredPosition encrypts holds the requester's x in slot 2k
\* and y in slot 2k+1 for every k < nbDrivers and zero in every slot from
\* 2 * nbDrivers on; the coordinate is below maxvalue and is the one kept in
\* riderPosX, riderPosY.
C21_RequesterVector ==
    pc = "encrypted"
        => /\ \A k \in Candidates :
                /\ riderCiphertext[2 * k] = riderPosX
                /\ riderCiphertext[2 * k + 1] = riderPosY
           /\ \A s \in Slots : s >= 2 * nbDrivers => riderCiphertext[s] = 0
           /\ riderPosX < maxvalue
           /\ riderPosY < maxvalue

\* a requester vector with replicated pairs followed by zero slots
C21_Witness ==
    /\ pc = "encrypted"
    /\ nbDrivers = 2
    /\ riderPosX = 8118
    /\ riderPosY = 500
    /\ riderCiphertext[2] = 8118
    /\ riderCiphertext[3] = 500
    /\ riderCiphertext[4] = 0

RECURSIVE AddInOrder(_, _, _, _, _, _)
\* the accumulation loop of FindClosestDriver taking the candidates in the order
\* order[n], order[n+1], ..., order[nb-1]
AddInOrder(ct, cts, order, n, nb, t) ==
    IF n >= nb
    THEN ct
    ELSE AddInOrder(Add(ct, cts[order[n]], t), cts, order, n + 1, nb, t)

\* C22: whatever the order in which the candidate ciphertexts are added into the
\* negated requester ciphertext, the accumulated slot vector, its square and the
\* vector decoded from it are those of index order (which fix the winner and the
\* error count).
C22_OrderIrrelevant ==
    pc = "generated"
        => LET negated == Neg(riderCiphertext, paramsT)
               inIndexOrder == AddDrivers(negated, DriverCipherTexts, 0, nbDrivers, paramsT)
               accumulated ==
                   { AddInOrder(negated, DriverCipherTexts, order, 0, nbDrivers, paramsT) :
                       order \in Permutations(Candidates) }
           IN  /\ accumulated = { inIndexOrder }
               /\ \A acc \in accumulated, faulty \in FaultPatterns(nbDrivers) :
                    DecodeUintNew(MulNew(acc, acc, paramsT), faulty, paramsT)
                      = DecodeUintNew(MulNew(inIndexOrder, inIndexOrder, paramsT),
                                      faulty, paramsT)

\* several candidates at different positions, about to be accumulated
C22_Witness ==
    /\ pc = "generated"
    /\ run = 0
    /\ nbDrivers >= 3
    /\ <<PosX(0), PosY(0)>> # <<PosX(1), PosY(1)>>
    /\ <<PosX(1), PosY(1)>> # <<PosX(2), PosY(2)>>
    /\ Cardinality(Permutations(Candidates)) >= 6

\* C23: after FindClosestDriver has returned, the requester ciphertext of the caller
\* still encrypts the requester vector GetCipheredPosition built, and every
\* candidate ciphertext still encrypts that candidate's plaintext vector.
C23_CiphertextKept ==
    (Returned /\ run = 1)
        => /\ riderCiphertext = Encode(RiderVector(nbDrivers, riderPosX, riderPosY), paramsT)
           /\ \A k \in Candidates : DriverCipherTexts[k] = Encode(DriversData[k], paramsT)

\* the larger and the smaller of two naturals
Max(m, n) == IF m >= n THEN m ELSE n

Min(m, n) == IF m <= n THEN m ELSE n

\* C24: for a, b, c, d below maxvalue the uint64 value distance(a, b, c, d) returns
\* is the exact integer (max(a,c) - min(a,c))^2 + (max(b,d) - min(b,d))^2, and
\* distance(c, d, a, b) returns the same value.
C24_DistanceExactSymmetric ==
    (pc = "arith_done")
        => /\ dist = U64(Square(Max(args[1], args[3]) - Min(args[1], args[3]))
                         + Square(Max(args[2], args[4]) - Min(args[2], args[4])))
           /\ distance(U64(args[3]), U64(args[4]), U64(args[1]), U64(args[2])) = dist

\* a call whose subtractions wrap around in one component and not in the other,
\* with a result that is not below T
C24_Witness ==
    /\ pc = "arith_done"
    /\ paramsT = ParamT
    /\ args[1] > args[3]
    /\ args[2] < args[4]
    /\ underflow
    /\ SqDist(args[1], args[2], args[3], args[4]) >= paramsT
    /\ dist = U64(SqDist(args[1], args[2], args[3], args[4]))

\* candidates below n whose two decoded slots add up to their exact squared distance
Passed(n) == { k \in 0 .. (n - 1) : result[2 * k] + result[2 * k + 1] = TrueDist(k) }

C26_ExactRoundHasNoErrors ==
    (pc \in { "select", "selected", "returned" } /\ CapabilityExact /\ run = 1)
        => /\ errors = 0
           /\ Passed(i) = 0 .. (i - 1)
           /\ \A k \in 0 .. (i - 1) : ComputedDist(k) = U64(TrueDist(k))

\* a finished exact round with a candidate left of and below the requester at a
\* squared distance of T or more
C26_Witness ==
    /\ pc = "selected"
    /\ CapabilityExact
    /\ errors = 0
    /\ i = nbDrivers
    /\ \E k \in Candidates :
         /\ PosX(k) < riderPosX
         /\ PosY(k) < riderPosY
         /\ TrueDist(k) >= paramsT
         /\ ComputedDist(k) = U64(TrueDist(k))

\* C27: every round in which ObliviousRideMatching returns reports
\* isClosestDriverFound = TRUE with an identifier "Driver<k>", 0 <= k <
\* max(nbDrivers, 1): the identifier is never empty, so createServices always takes
\* the branch that submits and never the one that reports no driver.
C27_AlwaysFound ==
    /\ Returned
         => /\ ClosestDriverID # ""
            /\ \E k \in 0 .. (Max(nbDrivers, 1) - 1) : ClosestDriverID = "Driver" \o ToString(k)
    /\ pc \in { "returned", "done", "submit_panic" } => isClosestDriverFound
    /\ RoundOver => Len(submitted) = 1

\* a round whose only candidate failed the check still ends with a driver reported
\* found and a submission
C27_Witness ==
    /\ RoundOver
    /\ nbDrivers = 1
    /\ errors = 1
    /\ isClosestDriverFound
    /\ ClosestDriverID = "Driver0"
    /\ Len(submitted) = 1

\* C28: after any sequence of InitLedger, CreateService, UpdateService,
\* TransferService and DeleteService, every record on the ledger carries as
\* ServiceID the key it is stored under, and GetAllServices returns exactly one
\* record per key on the ledger and none for a key that is not on it.
C28_KeysMatchRecords ==
    pc = "ledger"
        => LET all == GetAllServices(ledger)
               returned == all.value
               positions == 1 .. Len(returned)
           IN  /\ \A k \in DOMAIN ledger : Unmarshal(ledger[k]).ServiceID = k
               /\ all.err = ""
               /\ Len(returned) = Cardinality(DOMAIN ledger)
               /\ \A k \in DOMAIN ledger :
                    \E n \in positions : returned[n] = Unmarshal(ledger[k])
               /\ \A n \in positions : returned[n].ServiceID \in DOMAIN ledger
               /\ \A m, n \in positions :
                    returned[m].ServiceID = returned[n].ServiceID => m = n
               /\ Called("GetAllServices") => txResult.value = returned

\* a ledger after a deletion and a transfer, read by GetAllServices
C28_Witness ==
    /\ Called("GetAllServices")
    /\ "service0" \notin DOMAIN ledger
    /\ "service1" \in DOMAIN ledger
    /\ NewUUID \in DOMAIN ledger
    /\ Unmarshal(ledger[NewUUID]).DriverID = "Driver91"
    /\ Unmarshal(ledger[NewUUID]).TimeStampServizio = RideTime
    /\ Len(txResult.value) = 9

\* the record under the key of the last invocation, before it
RecordBefore == Unmarshal(txResult.before[TxKey])

\* C29: TransferService on an existing record returns the record's previous
\* DriverID, stores newDriver as its DriverID and leaves its other fields and every
\* other record as they were; on a serviceID that is not on the ledger it returns an
\* error and changes nothing.
C29_TransferService ==
    Called("TransferService")
        => IF TxKey \in DOMAIN txResult.before
           THEN /\ txResult.err = ""
                /\ txResult.value = << RecordBefore.DriverID >>
                /\ DOMAIN ledger = DOMAIN txResult.before
                /\ Unmarshal(ledger[TxKey]) =
                     [ServiceID |-> TxKey,
                      RiderID |-> RecordBefore.RiderID,
                      DriverID |-> txResult.params[2],
                      TimeStampServizio |-> RecordBefore.TimeStampServizio,
                      Report |-> RecordBefore.Report]
                /\ \A k \in DOMAIN ledger \ { TxKey } : ledger[k] = txResult.before[k]
           ELSE /\ txResult.err # ""
                /\ txResult.value = << >>
                /\ ledger = txResult.before

\* a transfer that replaced the driver of a record among other records
C29_Witness ==
    /\ Called("TransferService")
    /\ TxKey \in DOMAIN txResult.before
    /\ Cardinality(DOMAIN ledger) > 1
    /\ txResult.value = << "Driver91" >>
    /\ txResult.params[2] = "Driver0"
    /\ Unmarshal(ledger[TxKey]).DriverID = "Driver0"
    /\ Unmarshal(ledger[TxKey]).RiderID = "Rider12"

\* the keys InitLedger writes
MockKeys == { MockServices("")[n].ServiceID : n \in 1 .. Len(MockServices("")) }

\* C30: InitLedger checks nothing: from any ledger it succeeds, puts under each of
\* service0 .. service8 the mock record with the given timestamp whatever was or
\* was not there, leaves every other key as it was, and a second call with the same
\* timestamp changes nothing more.
C30_InitLedgerOverwrites ==
    Called("InitLedger")
        => /\ txResult.err = ""
           /\ DOMAIN ledger = (DOMAIN txResult.before) \cup MockKeys
           /\ Cardinality(MockKeys) = 9
           /\ \A n \in 1 .. Len(MockServices(txResult.params[1])) :
                Unmarshal(ledger[MockServices(txResult.params[1])[n].ServiceID])
                  = MockServices(txResult.params[1])[n]
           /\ \A k \in (DOMAIN txResult.before) \ MockKeys : ledger[k] = txResult.before[k]
           /\ InitLedger(ledger, txResult.params[1]).ledger = ledger

\* an InitLedger that brought back the mock record of a key which had been given
\* another driver, and kept a created service
C30_Witness ==
    /\ Called("InitLedger")
    /\ "service0" \in DOMAIN txResult.before
    /\ Unmarshal(txResult.before["service0"]).DriverID = "Driver0"
    /\ Unmarshal(ledger["service0"]).DriverID = "Driver91"
    /\ NewUUID \in DOMAIN ledger
    /\ ledger[NewUUID] = txResult.before[NewUUID]

====
